---- MODULE Spec2Model ----
(***************************************************************************)
(* Model of main.py of gRNAde: the dataset splitter (get_data_splits) and  *)
(* the datasets (get_dataset) and data loaders (get_dataloader) main       *)
(* builds from the splits, with the BatchSampler each loader wraps.        *)
(*                                                                         *)
(* A sample is identified by its 0-based index in the loaded corpus        *)
(* (processed.pt).  Python lists are sequences; a Python index i names     *)
(* element i + 1 of the sequence.                                          *)
(***************************************************************************)
EXTENDS Integers, Sequences, FiniteSets, TLC

VARIABLES
    config,       \* the wandb configuration: split, eval_size, max_nodes
    data_list,    \* the loaded corpus, in source order
    artifact,     \* seq_identity_split.pt: (train_idx_list, val_idx_list, test_idx_list)
    pc,           \* position of main: "start", "split_done", "raised", "datasets", "loaders"
    exc,          \* the exception that ended get_data_splits, or "none"
    train_list,   \* get_data_splits' three results
    val_list,
    test_list,
    datasets,     \* trainset, valset, testset: each split's dataset
    samplers,     \* the BatchSampler of each split's loader
    active,       \* the split whose loader is being iterated, or "none"
    bpc,          \* position of the iteration: "idle", "packing", "done"
    order,        \* the indices of this epoch not yet packed
    batch,        \* the batch being filled
    batches,      \* the batches emitted so far in this epoch
    prev_batches, \* history: the batches of the epoch before, when it ran on the same loader unshuffled
    repeated      \* history: this epoch runs on the loader the epoch before ran on

vars == <<config, data_list, artifact, pc, exc, train_list, val_list, test_list,
          datasets, samplers, active, bpc, order, batch, batches, prev_batches,
          repeated>>

splitVars == <<data_list, artifact, exc, train_list, val_list, test_list>>
epochVars == <<active, bpc, order, batch, batches, prev_batches, repeated>>

----------------------------------------------------------------------------
(* Bounds of the model. *)

MaxN == 3          \* largest corpus whose metrics vary
MaxArtN == 2       \* largest corpus for the seq_identity strategy
MaxArtLen == 2     \* most indices in the three lists of seq_identity_split.pt
MaxMetric == 2     \* avg. RMSD values are 0..MaxMetric
MaxCoords == 3     \* structure counts are 1..MaxCoords
MaxEval == 3       \* eval_size is -1..MaxEval
MaxLen == 3        \* largest corpus whose node counts vary
MaxSize == 2       \* node counts are 0..MaxSize
MaxNodes == 2      \* max_nodes is 1..MaxNodes

\* the values of config.eval_size tried: a negative one, zero, and the positive ones
EvalSizes == -1..MaxEval

----------------------------------------------------------------------------
(* Helpers over sequences. *)

Min(a, b) == IF a < b THEN a ELSE b
Max(a, b) == IF a > b THEN a ELSE b

Range(s) == {s[i] : i \in 1..Len(s)}

\* range(n) as a list
PyRange(n) == [i \in 1..n |-> i - 1]

RECURSIVE SeqSum(_)
SeqSum(s) == IF s = <<>> THEN 0 ELSE Head(s) + SeqSum(Tail(s))

RECURSIVE Flatten(_)
Flatten(ss) == IF ss = <<>> THEN <<>> ELSE Head(ss) \o Flatten(Tail(ss))

\* number of positions of s holding x
Count(s, x) == Cardinality({i \in 1..Len(s) : s[i] = x})

\* all sequences over S of length at most k
SeqsUpTo(S, k) == UNION {[1..m -> S] : m \in 0..k}

\* all orderings of 0..n-1
Permutations0(n) == {p \in [1..n -> 0..(n - 1)] : \A i, j \in 1..n : i # j => p[i] # p[j]}

Ids(lst) == [i \in 1..Len(lst) |-> lst[i].id]

----------------------------------------------------------------------------
(* Python list semantics used by get_data_splits. *)

\* a slice bound as Python normalises it for a list of length n
SliceBound(i, n) == IF i < 0 THEN Max(i + n, 0) ELSE Min(i, n)

\* lst[start:stop]
PySlice(lst, start, stop) ==
    SubSeq(lst, SliceBound(start, Len(lst)) + 1, SliceBound(stop, Len(lst)))

\* lst[:stop]
PySliceTo(lst, stop) == SubSeq(lst, 1, SliceBound(stop, Len(lst)))

\* lst[start:]
PySliceFrom(lst, start) == SubSeq(lst, SliceBound(start, Len(lst)) + 1, Len(lst))

\* lst[index] raises IndexError exactly outside -len..len-1
IndexOk(lst, index) == -Len(lst) <= index /\ index < Len(lst)

\* lst[index]: a negative index counts from the end
PyIndex(lst, index) == IF index < 0 THEN lst[Len(lst) + index + 1] ELSE lst[index + 1]

index_list_by_indices(lst, indices) == [k \in 1..Len(indices) |-> PyIndex(lst, indices[k])]

IndicesOk(lst, indices) == \A k \in 1..Len(indices) : IndexOk(lst, indices[k])

----------------------------------------------------------------------------
(* zip, sorted(zipped, key=lambda x: x[1], reverse=True) and the unzip.     *)
(* A zipped pair (data, value) is the tuple <<data, value>>; x[1] in Python *)
(* is its second component.  Python's sort is stable, also with reverse.    *)

Zip(xs, ys) == [i \in 1..Min(Len(xs), Len(ys)) |-> <<xs[i], ys[i]>>]

\* faulty variant: x goes in front of the pairs of equal key (an unstable sort)
RECURSIVE InsertDescUnstable(_, _)
InsertDescUnstable(sorted, x) ==
    IF sorted = <<>> THEN <<x>>
    ELSE IF Head(sorted)[2] > x[2]
         THEN <<Head(sorted)>> \o InsertDescUnstable(Tail(sorted), x)
         ELSE <<x>> \o sorted

\* x goes behind every pair whose key is >= x's: equal keys keep their order
RECURSIVE InsertDesc(_, _)
InsertDesc(sorted, x) ==
    IF sorted = <<>> THEN <<x>>
    ELSE IF Head(sorted)[2] >= x[2]
         THEN <<Head(sorted)>> \o InsertDesc(Tail(sorted), x)
         ELSE <<x>> \o sorted

RECURSIVE SortedReverse(_)
SortedReverse(zipped) ==
    IF zipped = <<>> THEN <<>>
    ELSE InsertDesc(SortedReverse(SubSeq(zipped, 1, Len(zipped) - 1)), zipped[Len(zipped)])

\* the first list of the unzipped sorted_zipped: the samples
Unzip1(zipped) == [i \in 1..Len(zipped) |-> zipped[i][1]]

\* get_avg_rmsds(data_list): one average RMSD per sample
get_avg_rmsds(lst) == [i \in 1..Len(lst) |-> lst[i].rmsd]

\* [len(data["coords_list"]) for data in data_list]
count_list(lst) == [i \in 1..Len(lst) |-> lst[i].coords]

----------------------------------------------------------------------------
(* get_data_splits *)

NoArtifact == [train |-> <<>>, val |-> <<>>, test |-> <<>>]

\* faulty variant: the else branch sorts by avg. RMSD unless the strategy is "random"
ordered_data_else_rmsd(split_type, lst) ==
    IF split_type = "struct" THEN Unzip1(SortedReverse(Zip(lst, count_list(lst))))
    ELSE IF split_type = "random" THEN lst
    ELSE Unzip1(SortedReverse(Zip(lst, get_avg_rmsds(lst))))

\* the if / elif / elif / else chain: the list that is sliced.  Every split_type
\* that is not "seq_identity", "rmsd" or "struct" takes the else branch.
ordered_data(split_type, lst) ==
    IF split_type = "rmsd" THEN Unzip1(SortedReverse(Zip(lst, get_avg_rmsds(lst))))
    ELSE IF split_type = "struct" THEN Unzip1(SortedReverse(Zip(lst, count_list(lst))))
    ELSE lst

\* test_list = data_list[:config.eval_size]
test_slice(lst, eval_size) == PySliceTo(lst, eval_size)

\* faulty variant: val starts one sample late
val_slice_late(lst, eval_size) == PySlice(lst, eval_size + 1, 2 * eval_size)

\* val_list = data_list[config.eval_size:2 * config.eval_size]
val_slice(lst, eval_size) == PySlice(lst, eval_size, 2 * eval_size)

\* faulty variant: train starts where val starts
train_slice_early(lst, eval_size) == PySliceFrom(lst, eval_size)

\* train_list = data_list[2 * config.eval_size:]
train_slice(lst, eval_size) == PySliceFrom(lst, 2 * eval_size)

\* the exception get_data_splits ends with, or "none"
\*   seq_identity: lst[index] raises IndexError on an index outside -len..len-1
\*   rmsd, struct: unpacking the unzip of an empty list into two names raises ValueError
split_exception(split_type, lst, art) ==
    IF split_type = "seq_identity"
    THEN IF IndicesOk(lst, art.train) /\ IndicesOk(lst, art.val) /\ IndicesOk(lst, art.test)
         THEN "none" ELSE "IndexError"
    ELSE IF split_type \in {"rmsd", "struct"} /\ lst = <<>> THEN "ValueError"
    ELSE "none"

\* (train_list, val_list, test_list) as returned
split_result(split_type, eval_size, lst, art) ==
    IF split_type = "seq_identity"
    THEN [train |-> index_list_by_indices(lst, art.train),
          val   |-> index_list_by_indices(lst, art.val),
          test  |-> index_list_by_indices(lst, art.test)]
    ELSE [train |-> train_slice(ordered_data(split_type, lst), eval_size),
          val   |-> val_slice(ordered_data(split_type, lst), eval_size),
          test  |-> test_slice(ordered_data(split_type, lst), eval_size)]

get_data_splits ==
    /\ pc = "start"
    /\ LET e == split_exception(config.split, data_list, artifact)
           r == split_result(config.split, config.eval_size, data_list, artifact)
       IN  IF e = "none"
           THEN /\ exc' = "none"
                /\ pc' = "split_done"
                /\ train_list' = r.train
                /\ val_list' = r.val
                /\ test_list' = r.test
           ELSE /\ exc' = e
                /\ pc' = "raised"
                /\ UNCHANGED <<train_list, val_list, test_list>>
    /\ UNCHANGED <<config, data_list, artifact, datasets, samplers, epochVars>>

----------------------------------------------------------------------------
(* main's datasets and data loaders, and the BatchSampler of each loader. *)

Splits == {"train", "val", "test"}

NoDataset == [split |-> "none", node_counts |-> <<>>]
NoSampler == [node_counts |-> <<>>, max_nodes |-> 0, shuffle |-> FALSE, built |-> FALSE]

\* get_dataset(config, data_list, split): the dataset of the samples of one
\* split, in the order of the list; node_counts holds each sample's size
get_dataset(lst, split) ==
    [split |-> split, node_counts |-> [i \in 1..Len(lst) |-> lst[i].nodes]]

\* main builds trainset, valset and testset from the three lists
get_datasets ==
    /\ pc = "split_done"
    /\ datasets' = [s \in Splits |->
                        IF s = "train" THEN get_dataset(train_list, "train")
                        ELSE IF s = "val" THEN get_dataset(val_list, "val")
                        ELSE get_dataset(test_list, "test")]
    /\ pc' = "datasets"
    /\ UNCHANGED <<config, splitVars, samplers, epochVars>>

\* faulty variant: every loader shuffles
main_shuffle_all(split) == TRUE

\* the shuffle argument main passes for each split's loader
main_shuffle(split) == split = "train"

\* faulty variant: the budget handed to the sampler is one too large
get_dataloader_loose_budget(ds, cfg, shuffle) ==
    [node_counts |-> ds.node_counts,
     max_nodes   |-> cfg.max_nodes + 1,
     shuffle     |-> shuffle,
     built       |-> TRUE]

\* faulty variant: the sampler is not given the last sample's node count
get_dataloader_short_counts(ds, cfg, shuffle) ==
    [node_counts |-> SubSeq(ds.node_counts, 1, Len(ds.node_counts) - 1),
     max_nodes   |-> cfg.max_nodes,
     shuffle     |-> shuffle,
     built       |-> TRUE]

\* get_dataloader(dataset, config, shuffle): the BatchSampler of the loader
get_dataloader(ds, cfg, shuffle) ==
    [node_counts |-> ds.node_counts,
     max_nodes   |-> cfg.max_nodes,
     shuffle     |-> shuffle,
     built       |-> TRUE]

\* main builds train_loader, val_loader and test_loader
build_loaders ==
    /\ pc = "datasets"
    /\ samplers' = [s \in Splits |-> get_dataloader(datasets[s], config, main_shuffle(s))]
    /\ pc' = "loaders"
    /\ UNCHANGED <<config, splitVars, datasets, epochVars>>

\* the sampler of the loader being iterated
Sampler == samplers[active]

\* size[index] for a 0-based index
SizeOf(index) == Sampler.node_counts[index + 1]

\* total size of a batch
BatchTotal(b) == SeqSum([k \in 1..Len(b) |-> SizeOf(b[k])])

\* step 1 of an epoch: the orderings of the split's indices a sampler may use
epoch_orderings(smp) ==
    IF smp.shuffle
    THEN Permutations0(Len(smp.node_counts))
    ELSE {PyRange(Len(smp.node_counts))}

\* "close the current batch (emit it)": the current batch is emitted as it is,
\* whatever it holds
close_batch(emitted, current) == Append(emitted, current)

\* epoch() of one loader: a fresh pass starts with nothing emitted
epoch_begin ==
    /\ pc = "loaders"
    /\ bpc \in {"idle", "done"}
    /\ \E s \in Splits :
        /\ active' = s
        /\ order' \in epoch_orderings(samplers[s])
        /\ repeated' = (bpc = "done" /\ s = active)
        /\ prev_batches' = IF bpc = "done" /\ s = active /\ ~samplers[s].shuffle
                           THEN batches ELSE <<>>
    /\ batch' = <<>>
    /\ batches' = <<>>
    /\ bpc' = "packing"
    /\ UNCHANGED <<config, splitVars, pc, datasets, samplers>>

\* step 2: the next index joins the current batch if it fits the budget;
\* otherwise the current batch is closed and a new one starts with the index
pack_next ==
    /\ bpc = "packing"
    /\ order # <<>>
    /\ LET index == Head(order)
       IN  IF BatchTotal(batch) + SizeOf(index) <= Sampler.max_nodes
           THEN /\ batch' = Append(batch, index)
                /\ UNCHANGED batches
           ELSE /\ batches' = close_batch(batches, batch)
                /\ batch' = <<index>>
    /\ order' = Tail(order)
    /\ UNCHANGED <<config, splitVars, pc, datasets, samplers, active, bpc,
                   prev_batches, repeated>>

\* step 4: the last batch is always emitted, and the epoch ends
epoch_end ==
    /\ bpc = "packing"
    /\ order = <<>>
    /\ batches' = close_batch(batches, batch)
    /\ batch' = <<>>
    /\ bpc' = "done"
    /\ UNCHANGED <<config, splitVars, pc, datasets, samplers, active, order,
                   prev_batches, repeated>>

----------------------------------------------------------------------------
(* The inputs of main: the configuration, the corpus and the artifact. *)

SplitTypes == {"random", "seq_identity", "rmsd", "struct", "kmeans"}

\* corpora of n samples whose avg. RMSD varies
RmsdCorpora(n) ==
    {[i \in 1..n |-> [id |-> i - 1, rmsd |-> m[i], coords |-> 1, nodes |-> 1]] :
        m \in [1..n -> 0..MaxMetric]}

\* corpora of n samples whose number of structures varies
CountCorpora(n) ==
    {[i \in 1..n |-> [id |-> i - 1, rmsd |-> 0, coords |-> m[i], nodes |-> 1]] :
        m \in [1..n -> 1..MaxCoords]}

\* the corpus whose samples have the given node counts and equal metrics
SizedCorpus(sizes) ==
    [i \in 1..Len(sizes) |-> [id |-> i - 1, rmsd |-> 0, coords |-> 1, nodes |-> sizes[i]]]

\* the corpus of n samples with equal metrics and node counts
PlainCorpus(n) == SizedCorpus([i \in 1..n |-> 1])

\* the contents seq_identity_split.pt may have for a corpus of n samples:
\* any three lists of integers, of which -n-1..n are tried
Artifacts(n) ==
    {[train |-> SubSeq(s, 1, a), val |-> SubSeq(s, a + 1, b), test |-> SubSeq(s, b + 1, Len(s))] :
        <<s, a, b>> \in {t \in SeqsUpTo((0 - n - 1)..n, MaxArtLen) \X (0..MaxArtLen) \X (0..MaxArtLen) :
                            t[2] <= t[3] /\ t[3] <= Len(t[1])}}

\* the corpus of 10 samples split at random with eval_size = 3
ScenarioCorpus == PlainCorpus(10)
ScenarioSplitConfig == [split |-> "random", eval_size |-> 3, max_nodes |-> 2]

\* sizes [60, 40, 30, 20, 10] under max_nodes = 100, and [5, 5, 5] under 3;
\* with eval_size = the size of the corpus the test loader holds them all
ScenarioPacking == [node_counts |-> <<60, 40, 30, 20, 10>>, max_nodes |-> 100]
ScenarioOversize == [node_counts |-> <<5, 5, 5>>, max_nodes |-> 3]
Scenarios == {ScenarioPacking, ScenarioOversize}

\* inputs whose metrics or artifact vary: what get_data_splits depends on
SplitInputs ==
    \E st \in SplitTypes :
        IF st = "seq_identity"
        THEN \E n \in 0..MaxArtN :
                /\ config = [split |-> st, eval_size |-> 1, max_nodes |-> 2]
                /\ data_list = PlainCorpus(n)
                /\ artifact \in Artifacts(n)
        ELSE \E n \in 0..MaxN :
                /\ config \in [split : {st}, eval_size : EvalSizes, max_nodes : {2}]
                /\ data_list \in (IF st = "struct" THEN CountCorpora(n) ELSE RmsdCorpora(n))
                /\ artifact = NoArtifact

\* inputs whose node counts and budget vary: what the batches depend on
BatchInputs ==
    /\ config \in [split : {"random"}, eval_size : 0..MaxEval, max_nodes : 1..MaxNodes]
    /\ data_list \in {SizedCorpus(sizes) : sizes \in SeqsUpTo(0..MaxSize, MaxLen)}
    /\ artifact = NoArtifact

\* the concrete scenarios
ScenarioInputs ==
    \/ /\ config = ScenarioSplitConfig
       /\ data_list = ScenarioCorpus
       /\ artifact = NoArtifact
    \/ \E sc \in Scenarios :
        /\ config = [split |-> "random", eval_size |-> Len(sc.node_counts),
                     max_nodes |-> sc.max_nodes]
        /\ data_list = SizedCorpus(sc.node_counts)
        /\ artifact = NoArtifact

Init ==
    /\ pc = "start"
    /\ exc = "none"
    /\ train_list = <<>>
    /\ val_list = <<>>
    /\ test_list = <<>>
    /\ SplitInputs \/ BatchInputs \/ ScenarioInputs
    /\ datasets = [s \in Splits |-> NoDataset]
    /\ samplers = [s \in Splits |-> NoSampler]
    /\ active = "none"
    /\ bpc = "idle"
    /\ order = <<>>
    /\ batch = <<>>
    /\ batches = <<>>
    /\ prev_batches = <<>>
    /\ repeated = FALSE

Next ==
    \/ get_data_splits
    \/ get_datasets
    \/ build_loaders
    \/ epoch_begin
    \/ pack_next
    \/ epoch_end

Spec == Init /\ [][Next]_vars

----------------------------------------------------------------------------
(* Properties of get_data_splits. *)

N == Len(data_list)
EvalSize == config.eval_size
\* get_data_splits has returned; main keeps the three lists from then on
SplitReturned == pc \in {"split_done", "datasets", "loaders"}
Slicing == config.split # "seq_identity"
Sorting == config.split \in {"rmsd", "struct"}

\* the metric the strategy sorts by
Metric(x) == IF config.split = "rmsd" THEN x.rmsd ELSE x.coords

\* the samples as returned, test first
Returned == test_list \o val_list \o train_list

\* every index 0..n-1 exactly once in the three results together
IsPartition ==
    /\ Len(Returned) = N
    /\ \A i \in 0..(N - 1) : Count(Ids(Returned), i) = 1

\* s is ordered by the metric, largest first, equal metrics in source order
StableDescending(s) ==
    \A i, j \in 1..Len(s) :
        i < j => \/ Metric(s[i]) > Metric(s[j])
                 \/ Metric(s[i]) = Metric(s[j]) /\ s[i].id < s[j].id

\* the three results have the sizes the slicing rule gives
SliceSizes ==
    /\ Len(test_list) = Min(EvalSize, N)
    /\ Len(val_list) = Min(EvalSize, N - Len(test_list))
    /\ Len(train_list) = N - Len(test_list) - Len(val_list)

\* C1: whenever get_data_splits returns (eval_size a positive integer, as the
\* configuration surface has it), train, val and test are pairwise disjoint and
\* hold every index 0..n-1 exactly once.
C1_ReturnedSplitIsPartition ==
    (SplitReturned /\ EvalSize >= 1) => IsPartition

\* C2: for a strategy other than seq_identity and eval_size e >= 0, the samples
\* in the strategy's order (source order for random, stable descending order of
\* the metric for rmsd and struct) are cut into test = the first e, val = the
\* next e, train = the rest (as many as there are); with 2e <= n test and val
\* hold exactly e; 10 samples, e = 3, random give 0..2, 3..5, 6..9.
C2_SlicingRule ==
    (SplitReturned /\ Slicing /\ EvalSize >= 0) =>
        /\ IsPartition
        /\ SliceSizes
        /\ 2 * EvalSize <= N => Len(test_list) = EvalSize /\ Len(val_list) = EvalSize
        /\ IF Sorting THEN StableDescending(Returned) ELSE Ids(Returned) = PyRange(N)
        /\ (config = ScenarioSplitConfig /\ data_list = ScenarioCorpus) =>
                /\ Ids(test_list) = <<0, 1, 2>>
                /\ Ids(val_list) = <<3, 4, 5>>
                /\ Ids(train_list) = <<6, 7, 8, 9>>

C2_Witness ==
    /\ SplitReturned
    /\ config = ScenarioSplitConfig
    /\ data_list = ScenarioCorpus
    /\ Ids(train_list) = <<6, 7, 8, 9>>

\* C3: for rmsd and struct (eval_size e >= 0), test ++ val ++ train is the
\* corpus ordered by the metric, largest first, samples of equal metric in
\* source order; so no val sample exceeds a test sample and no train sample
\* exceeds a val sample.
C3_StableDescendingSort ==
    (SplitReturned /\ Sorting /\ EvalSize >= 0) =>
        /\ IsPartition
        /\ StableDescending(Returned)
        /\ \A t \in Range(test_list), v \in Range(val_list) : Metric(t) >= Metric(v)
        /\ \A v \in Range(val_list), r \in Range(train_list) : Metric(v) >= Metric(r)
        /\ \A t \in Range(test_list), r \in Range(train_list) : Metric(t) >= Metric(r)

\* a sort that moved samples and had equal metrics to keep in order
C3_Witness ==
    /\ SplitReturned
    /\ config.split = "rmsd"
    /\ EvalSize = 1
    /\ N = 3
    /\ Ids(Returned) = <<1, 0, 2>>
    /\ Metric(data_list[1]) = Metric(data_list[3])

\* C4 as claimed: with 2 * eval_size >= n (a corpus that is not empty, a positive
\* eval_size) every strategy other than seq_identity fails with a ConfigError.
C4_TooLargeEvalSizeRejected ==
    (pc # "start" /\ Slicing /\ N >= 1 /\ EvalSize >= 1 /\ 2 * EvalSize >= N) =>
        pc = "raised" /\ exc = "ConfigError"

\* C4 as amended: with 2 * eval_size >= n and a corpus that is not empty, every
\* strategy other than seq_identity returns normally, with an empty train set
\* and every sample in test or val; no ConfigError is ever raised.
C4_TooLargeEvalSizeGivesEmptyTrain ==
    /\ exc # "ConfigError"
    /\ (pc # "start" /\ Slicing /\ N >= 1 /\ 2 * EvalSize >= N) =>
            /\ SplitReturned
            /\ train_list = <<>>
            /\ Len(test_list) + Len(val_list) = N
            /\ IsPartition

C4_Witness ==
    /\ SplitReturned
    /\ config.split = "struct"
    /\ N = 3
    /\ EvalSize = 2
    /\ train_list = <<>>
    /\ Len(val_list) = 1

\* the three index lists of the artifact, and whether one of them holds an
\* index outside 0..n-1
ArtifactIndices == artifact.train \o artifact.val \o artifact.test
ArtifactOutOfRange ==
    \E k \in 1..Len(ArtifactIndices) : ArtifactIndices[k] < 0 \/ ArtifactIndices[k] >= N

\* C5: for seq_identity, an artifact holding an index outside 0..n-1 (a negative
\* one included) makes the split fail (here: with any exception); the index is
\* never resolved to some other sample.
C5_InvalidArtifactRejected ==
    (pc # "start" /\ config.split = "seq_identity" /\ ArtifactOutOfRange) => pc = "raised"

\* C6 as claimed: a split strategy outside random, seq_identity, rmsd, struct is
\* rejected (on a corpus that is not empty, with a positive eval_size); no split
\* is returned for it.
ValidSplitTypes == {"random", "seq_identity", "rmsd", "struct"}
C6_UnknownStrategyRejected ==
    (pc # "start" /\ config.split \notin ValidSplitTypes /\ N >= 1 /\ EvalSize >= 1) =>
        pc = "raised"

\* C6 as amended: a split strategy that is none of seq_identity, rmsd, struct
\* (random or an unknown value) is never rejected and is split as random is:
\* in source order, for eval_size e >= 0 test = the first e samples, val = the
\* next e, train = the rest.
C6_UnknownStrategyIsRandom ==
    (pc # "start" /\ config.split \notin {"seq_identity", "rmsd", "struct"}) =>
        /\ SplitReturned
        /\ exc = "none"
        /\ EvalSize >= 0 => /\ Ids(Returned) = PyRange(N)
                            /\ SliceSizes

\* an unknown strategy on a corpus whose RMSD order differs from its source order
C6_Witness ==
    /\ SplitReturned
    /\ config.split = "kmeans"
    /\ N = 3
    /\ EvalSize = 1
    /\ data_list[1].rmsd < data_list[2].rmsd
    /\ Ids(test_list) = <<0>>
    /\ Ids(val_list) = <<1>>
    /\ Ids(train_list) = <<2>>

----------------------------------------------------------------------------
(* Properties of the batches of an epoch. *)

\* the dataset of the loader being iterated, as main built it
Iterating == bpc # "idle"
NodeCounts == datasets[active].node_counts
Budget == config.max_nodes
NumSamples == Len(NodeCounts)
Evaluating == active \in {"val", "test"}

\* total size of the members of b, by the dataset's node counts
TotalSize(b) == SeqSum([k \in 1..Len(b) |-> NodeCounts[b[k] + 1]])

Oversize(index) == NodeCounts[index + 1] > Budget

\* s holds every index of the dataset exactly once
CoversDataset(s) ==
    /\ Len(s) = NumSamples
    /\ \A i \in 0..(NumSamples - 1) : Count(s, i) = 1

\* C7: every batch, emitted or being filled, in every epoch and under every
\* ordering, has total size <= max_nodes, unless it is a single sample whose
\* own size exceeds max_nodes.
C7_BudgetInvariant ==
    Iterating => \A b \in Range(batches) \cup {batch} :
        \/ TotalSize(b) <= Budget
        \/ Len(b) = 1 /\ Oversize(b[1])

\* a shuffled epoch after another on the same loader, with an oversize singleton and a batch filled to the budget
C7_Witness ==
    /\ bpc = "done"
    /\ repeated
    /\ active = "train"
    /\ \E b \in Range(batches) : Len(b) = 1 /\ Oversize(b[1])
    /\ \E b \in Range(batches) : Len(b) >= 2 /\ TotalSize(b) = Budget

\* C8: during an epoch no index is lost or repeated, and when the epoch has
\* ended the emitted batches hold every index of the split exactly once: the
\* last batch is emitted, oversize samples are kept; so in every epoch.
C8_EpochCoverage ==
    /\ bpc = "idle" => batches = <<>>
    /\ bpc = "packing" => CoversDataset(Flatten(batches) \o batch \o order)
    /\ bpc = "done" => CoversDataset(Flatten(batches)) /\ batch = <<>> /\ order = <<>>

\* a shuffled epoch after another on the same loader, with an oversize sample and a partial last batch
C8_Witness ==
    /\ bpc = "done"
    /\ repeated
    /\ active = "train"
    /\ NumSamples = 3
    /\ Flatten(batches) = <<2, 0, 1>>
    /\ \E i \in 0..2 : Oversize(i)
    /\ Len(batches) >= 2
    /\ TotalSize(batches[Len(batches)]) < Budget

====
